---- MODULE Spec2Model ----
(***************************************************************************)
(* A model of the state-space search engine of graph.py (Graph, Node and   *)
(* the eight strategies) together with the State classes of                *)
(* state_classes.py that the engine is run on.                             *)
(*                                                                         *)
(* A State is a record tagged with its class (cls).  A Node is modelled by *)
(* the State it wraps: Node.__eq__ and Node.__hash__ delegate to the       *)
(* State, so a set or dict of Nodes is a set or function over States.      *)
(* A recursive helper is unfolded into an explicit stack of frames; one    *)
(* action is one entry to a helper, one iteration of its for loop, or the  *)
(* handling of the value one recursive call returned.                      *)
(***************************************************************************)
EXTENDS Integers, Sequences, FiniteSets, TLC

\* ------------------------------------------------------------------ bounds
\* Vertex instances have at most NumNodes states and MaxEdges transitions.
NumNodes == 4
MaxEdges == 3
\* attractive_rate() of a Vertex state is one of 0..MaxRate.
MaxRate == 1
\* DFSL and RDFSL are called with depth in 0..MaxDepth.
MaxDepth == 2
\* ModN instances have mod in 1..MaxMod.
MaxMod == 5
\* The depth counter i of IDFSL/RIDFSL is not counted beyond MaxI.
MaxI == 4
\* Pacman grids have at most MaxCells cells, at most MaxEnemies enemies,
\* MaxPoints points and MaxBlocks blocks.
MaxCells == 5
MaxEnemies == 2
MaxPoints == 1
MaxBlocks == 1
\* maze_constructor is called with 1..MaxDim rows and 1..MaxDim columns, and
\* with exit and block coordinates up to MaxDim, one beyond the largest grid.
MaxDim == 2

\* --------------------------------------------------------------- variables
VARIABLES
    start_node,          \* Graph.start_node (the State it wraps)
    succ,                \* Vertex class: next_states() of each state, in order
    goal,                \* Vertex class: the states whose is_end_state() is true
    rate,                \* Vertex class: the attractive_rate() values evaluated so far
    strategy,            \* solve_end_state: the strategy argument of the current call
    depth_kw,            \* solve_end_state: kwargs["depth"] of the current call
    pc,                  \* where the current call stands
    parent_dict,         \* solve_end_state_BFS: parent_dict
    fifo_queue,          \* solve_end_state_BFS: fifo_queue
    path,                \* DFS family: path
    solved_state_nodes,  \* DFS family: solved_state_nodes
    frames,              \* DFS family: the active recursive calls, innermost last
    callee,              \* DFS family: the recursive call being entered
    retval,              \* DFS family: what the last finished recursive call returned
    i,                   \* solve_end_state_IDFSL / RIDFSL: i
    sol,                 \* solve_end_state_IDFSL / RIDFSL: sol
    outcome,             \* what the current call returned or raised
    prev,                \* the previous call on this Graph: its arguments and outcome
    pacman,              \* a Pacman state: self of Pacman.next_states
    next_states_call,    \* Pacman.next_states: self, locals and result of the last call
    maze_args,           \* Maze.maze_constructor: its arguments
    maze                 \* Maze.maze_constructor: what it returned or raised

\* State-class objects that are worked on outside a search.
statev   == <<pacman, next_states_call, maze_args, maze>>
instance == <<start_node, succ, goal, statev>>
callv    == <<strategy, depth_kw>>
bfsv     == <<parent_dict, fifo_queue>>
dfsv     == <<path, solved_state_nodes, frames, callee, retval>>
iterv    == <<i, sol>>
vars     == <<start_node, succ, goal, rate, strategy, depth_kw, pc, parent_dict,
              fifo_queue, path, solved_state_nodes, frames, callee, retval, i,
              sol, outcome, prev, pacman, next_states_call, maze_args, maze>>

\* ----------------------------------------------------------- small helpers
Range(f)   == {f[k] : k \in DOMAIN f}
Last(s)    == s[Len(s)]
Front(s)   == SubSeq(s, 1, Len(s) - 1)
Reverse(s) == [k \in 1..Len(s) |-> s[Len(s) + 1 - k]]
EmptyMap   == [x \in {} |-> x]

\* ------------------------------------------------------------ State classes
LightBulb(is_on)    == [cls |-> "LightBulb", is_on |-> is_on]
ModN(mod, inc, val) == [cls |-> "ModN", mod |-> mod, inc |-> inc, val |-> val]
\* A state of an arbitrary finite State subclass, named by a number.
Vertex(id)          == [cls |-> "Vertex", id |-> id]

LightBulb_next_states(s) == << LightBulb(~ s.is_on) >>
LightBulb_is_end_state(s) == s.is_on

\* A ModN that steps by one instead of by inc.
ModN_next_states_by_one(s) == << ModN(s.mod, s.inc, (s.val + 1) % s.mod) >>
ModN_next_states(s) == << ModN(s.mod, s.inc, (s.val + s.inc) % s.mod) >>
ModN_is_end_state(s) == s.val = 0

Vertex_next_states(s) == [k \in 1..Len(succ[s.id]) |-> Vertex(succ[s.id][k])]
Vertex_is_end_state(s) == s.id \in goal

\* State.next_states, dispatched on the class of s.
next_states(s) ==
    CASE s.cls = "LightBulb" -> LightBulb_next_states(s)
      [] s.cls = "ModN"      -> ModN_next_states(s)
      [] s.cls = "Vertex"    -> Vertex_next_states(s)

\* State.is_end_state, dispatched on the class of s.
is_end_state(s) ==
    CASE s.cls = "LightBulb" -> LightBulb_is_end_state(s)
      [] s.cls = "ModN"      -> ModN_is_end_state(s)
      [] s.cls = "Vertex"    -> Vertex_is_end_state(s)

\* TRUE iff the class of s overrides State.attractive_rate; the base method
\* raises NotImplementedError.  LightBulb and ModN do not override it.
implements_attractive_rate(s) == s.cls = "Vertex"

\* State.attractive_rate of a state whose class implements it; r is the table
\* of Vertex ratings.
attractive_rate(s, r) == r[s]

\* Node.get_arcs: the successors, wrapped, in next_states() order.
get_arcs(node) == next_states(node)

\* ------------------------------------------------------------------ values
Strategies == {"BFS", "DFS", "RDFS", "DFSL", "RDFSL", "IDFSL", "RIDFSL", "PDFS"}
Rates      == 0..MaxRate

NoOutcome           == [kind |-> "none", path |-> << >>]
Returned(p)         == [kind |-> "path", path |-> p]
ValueError          == [kind |-> "ValueError", path |-> << >>]
NotImplementedError == [kind |-> "NotImplementedError", path |-> << >>]
NoCall              == [strategy |-> "none", depth |-> 0, outcome |-> NoOutcome]
NoCallee            == [fn |-> "none", depth |-> 0]

\* -------------------------------------------------------------------- Init
\* Before the first call the locals of the strategies do not exist yet.
InitEngine ==
    /\ strategy = "none" /\ depth_kw = 0 /\ pc = "idle"
    /\ parent_dict = EmptyMap /\ fifo_queue = << >>
    /\ path = << >> /\ solved_state_nodes = {} /\ frames = << >>
    /\ callee = NoCallee /\ retval = "none"
    /\ i = 0 /\ sol = NoOutcome /\ outcome = NoOutcome /\ prev = NoCall

\* The transitions of a Vertex instance, listed source by source:
\* el is a list of <<source, target>> pairs.
SourceSorted(el) == \A k \in 1..(Len(el) - 1) : el[k][1] <= el[k + 1][1]

\* next_states() of every state: the targets of its transitions, in list order.
SuccOf(el, n) ==
    [j \in 0..(n - 1) |->
        LET own == SelectSeq(el, LAMBDA e : e[1] = j)
        IN  [k \in 1..Len(own) |-> own[k][2]]]

\* Where state v is first mentioned: the least <<j, k>> with s[j][k] = v.
FirstSource(s, v) == CHOOSE j \in DOMAIN s :
    /\ v \in Range(s[j])
    /\ \A j2 \in DOMAIN s : v \in Range(s[j2]) => j <= j2
FirstIndex(s, v) == CHOOSE k \in DOMAIN s[FirstSource(s, v)] :
    /\ s[FirstSource(s, v)][k] = v
    /\ \A k2 \in DOMAIN s[FirstSource(s, v)] : s[FirstSource(s, v)][k2] = v => k <= k2

\* Every state but the start (0) is mentioned by a state named before it, and
\* the states are named in the order the successor lists first mention them.
\* Every instance whose states are all reachable from the start has exactly
\* one such naming; a state that is not reachable is never seen by a search.
NamedInDiscoveryOrder(s, n) ==
    /\ \A v \in 1..(n - 1) : \E j \in 0..(v - 1) : v \in Range(s[j])
    /\ \A v \in 2..(n - 1) :
            \/ FirstSource(s, v - 1) < FirstSource(s, v)
            \/ /\ FirstSource(s, v - 1) = FirstSource(s, v)
               /\ FirstIndex(s, v - 1) < FirstIndex(s, v)

\* An arbitrary State subclass with at most NumNodes states and at most
\* MaxEdges transitions, any set of end states; the start is state 0.
InitVertex ==
    \E n \in 1..NumNodes, e \in 0..MaxEdges :
        \E el \in [1..e -> (0..(n - 1)) \X (0..(n - 1))] :
            /\ SourceSorted(el)
            /\ NamedInDiscoveryOrder(SuccOf(el, n), n)
            /\ succ = SuccOf(el, n)
            /\ goal \in SUBSET (0..(n - 1))
            /\ start_node = Vertex(0)

InitLightBulb ==
    /\ start_node \in {LightBulb(b) : b \in BOOLEAN}
    /\ succ = EmptyMap /\ goal = {}

InitModN ==
    /\ \E m \in 1..MaxMod : \E inc \in 0..(m - 1), val \in 0..(m - 1) :
            start_node = ModN(m, inc, val)
    /\ succ = EmptyMap /\ goal = {}

\* No Pacman state and no call of maze_constructor.
NoObject == [cls |-> "none"]
NoStateObjects ==
    /\ pacman = NoObject /\ next_states_call = NoObject
    /\ maze_args = NoObject /\ maze = NoObject

\* Graph.__init__: the start state is wrapped; nothing else is kept.
Init ==
    /\ InitVertex \/ InitLightBulb \/ InitModN
    /\ rate = EmptyMap
    /\ InitEngine
    /\ NoStateObjects

\* -------------------------------------------------------- solve_end_state
\* The strategies that take the depth keyword.
DepthLimited == {"DFSL", "RDFSL"}
\* The strategies that call a depth-limited one with depth = 0, 1, 2, ...
Iterative    == {"IDFSL", "RIDFSL"}

\* The strategy IDFSL / RIDFSL hands each depth to.
inner_strategy(strat) ==
    CASE strat = "IDFSL"  -> "DFSL"
      [] strat = "RIDFSL" -> "RDFSL"
      [] OTHER            -> strat

\* Entry points as their docstrings describe them: RDFS and RDFSL call the
\* shuffling helpers.
entry_helper_as_documented(strat) ==
    CASE strat = "DFS"   -> "DFS"
      [] strat = "RDFS"  -> "RDFS"
      [] strat = "DFSL"  -> "DFSL"
      [] strat = "RDFSL" -> "RDFSL"
      [] strat = "PDFS"  -> "PDFS"

\* Entry points that call the shuffling helper for DFS.
entry_helper_shuffling(strat) ==
    CASE strat = "DFS"   -> "RDFS"
      [] strat = "RDFS"  -> "RDFS"
      [] strat = "DFSL"  -> "DFSL"
      [] strat = "RDFSL" -> "RDFSL"
      [] strat = "PDFS"  -> "PDFS"

\* The recursive helper each DFS-family entry point calls.  The entry points
\* of RDFS and RDFSL call the helpers of DFS and DFSL.
entry_helper(strat) ==
    CASE strat = "DFS"   -> "DFS"
      [] strat = "RDFS"  -> "DFS"
      [] strat = "DFSL"  -> "DFSL"
      [] strat = "RDFSL" -> "DFSL"
      [] strat = "PDFS"  -> "PDFS"

\* The helper a recursive helper calls for a successor.  The shuffling
\* helpers recurse into the helpers that do not shuffle.
recursive_callee(fn) ==
    CASE fn = "DFS"   -> "DFS"
      [] fn = "RDFS"  -> "DFS"
      [] fn = "DFSL"  -> "DFSL"
      [] fn = "RDFSL" -> "DFSL"
      [] fn = "PDFS"  -> "PDFS"

\* Entry points that start from an empty visited set.
fresh_solved_state_nodes_empty == {}

\* The visited set a DFS-family entry point starts from.
fresh_solved_state_nodes == {start_node}

\* A DFS-family entry point: fresh locals, then the first call of the helper
\* (with depth d; the helpers without a depth parameter ignore it).
enter_dfs_family(strat, d) ==
    /\ path' = << start_node >>
    /\ solved_state_nodes' = fresh_solved_state_nodes
    /\ frames' = << >>
    /\ callee' = [fn |-> entry_helper(strat), depth |-> d]
    /\ retval' = "none"
    /\ pc' = "enter"

\* Graph.solve_end_state(strategy, **kwargs): the strategy map and the first
\* lines of the strategy chosen.
solve_end_state(strat, d) ==
    /\ pc = "idle"
    /\ strategy' = strat
    /\ depth_kw' = d
    /\ outcome' = NoOutcome
    /\ i' = 0
    /\ sol' = NoOutcome
    /\ IF strat = "BFS"
       THEN /\ parent_dict' = EmptyMap
            /\ fifo_queue' = << [node |-> start_node, depth |-> 0] >>
            /\ pc' = "bfs"
            /\ UNCHANGED dfsv
       ELSE /\ enter_dfs_family(inner_strategy(strat), d)
            /\ UNCHANGED bfsv
    /\ UNCHANGED <<instance, rate, prev>>

\* The caller: any strategy, with a depth for the strategies that take one.
Call ==
    \E strat \in Strategies :
        \E d \in (IF strat \in DepthLimited THEN 0..MaxDepth ELSE {0}) :
            solve_end_state(strat, d)

\* ---------------------------------------------------- solve_end_state_BFS
\* A BFS that never skips a node it has seen.
BFS_seen_never(node, pd) == FALSE

\* `node in parent_dict`
BFS_seen(node, pd) == node \in DOMAIN pd

\* The for loop over curr_node_arcs, from its k-th arc on.
RECURSIVE BFS_for(_, _, _, _, _, _)
BFS_for(arcs, k, curr_node, depth, pd, q) ==
    IF k > Len(arcs)
    THEN [parent_dict |-> pd, fifo_queue |-> q]
    ELSE IF BFS_seen(arcs[k], pd)
         THEN BFS_for(arcs, k + 1, curr_node, depth, pd, q)
         ELSE BFS_for(arcs, k + 1, curr_node, depth,
                      (arcs[k] :> curr_node) @@ pd,
                      Append(q, [node |-> arcs[k], depth |-> depth + 1]))

\* The while loop of deconstruct_path_from_parent_dict.
RECURSIVE walk_parents(_, _, _)
walk_parents(curr_node, pd, p) ==
    IF curr_node = start_node
    THEN p
    ELSE walk_parents(pd[curr_node], pd, Append(p, pd[curr_node]))

\* A reconstruction that leaves the path in end-to-start order.
deconstruct_path_unreversed(end_node, pd) ==
    walk_parents(end_node, pd, << end_node >>)

\* Graph.deconstruct_path_from_parent_dict
deconstruct_path_from_parent_dict(end_node, pd) ==
    Reverse(walk_parents(end_node, pd, << end_node >>))

\* One turn of `while fifo_queue` on the locals pd and q: the locals after
\* it, and what the call returned or raised if the turn ended it.
BFS_turn(pd, q) ==
    IF q = << >>
    THEN [parent_dict |-> pd, fifo_queue |-> q, outcome |-> ValueError]
    ELSE LET curr_node == q[1].node
             depth     == q[1].depth
         IN  IF is_end_state(curr_node)
             THEN [parent_dict |-> pd, fifo_queue |-> Tail(q),
                   outcome |-> Returned(deconstruct_path_from_parent_dict(curr_node, pd))]
             ELSE LET r == BFS_for(get_arcs(curr_node), 1, curr_node, depth,
                                   pd, Tail(q))
                  IN  [parent_dict |-> r.parent_dict, fifo_queue |-> r.fifo_queue,
                       outcome |-> NoOutcome]

BFS_iteration ==
    /\ pc = "bfs"
    /\ LET r == BFS_turn(parent_dict, fifo_queue)
       IN  /\ parent_dict' = r.parent_dict
           /\ fifo_queue' = r.fifo_queue
           /\ outcome' = r.outcome
           /\ pc' = IF r.outcome = NoOutcome THEN "bfs" ELSE "done"
    /\ UNCHANGED <<instance, rate, callv, dfsv, iterv, prev>>

\* solve_end_state_BFS from its first line to its return or raise.
RECURSIVE BFS_while(_, _)
BFS_while(pd, q) ==
    LET r == BFS_turn(pd, q)
    IN  IF r.outcome # NoOutcome
        THEN r.outcome
        ELSE BFS_while(r.parent_dict, r.fifo_queue)

solve_end_state_BFS ==
    BFS_while(EmptyMap, << [node |-> start_node, depth |-> 0] >>)

\* ------------------------------------------- the recursive DFS-family helpers
\* The helpers with a depth parameter.
LimitedHelpers  == {"DFSL", "RDFSL"}
\* The helpers that shuffle node_arcs.
ShufflingHelpers == {"RDFS", "RDFSL"}

\* Helpers that give up one level early: `if depth <= 0`.
depth_exhausted_at_zero(fn, depth) == fn \in LimitedHelpers /\ depth <= 0

\* Helpers that never give up on depth.
depth_never_exhausted(fn, depth) == FALSE

\* `if depth < 0: return None` of the depth-limited helpers.
depth_exhausted(fn, depth) == fn \in LimitedHelpers /\ depth < 0

\* The depth handed to the recursive call: `depth-1`.
child_depth(fn, depth) == IF fn \in LimitedHelpers THEN depth - 1 ELSE depth

\* random.shuffle: any order of the list.
Shuffles(s) == {[k \in 1..Len(s) |-> s[p[k]]] : p \in Permutations(1..Len(s))}

\* The orders in which a helper may walk the arcs of curr_node.
node_arcs(fn, curr_node) ==
    IF fn \in ShufflingHelpers
    THEN Shuffles(get_arcs(curr_node))
    ELSE {get_arcs(curr_node)}

\* A sort that puts x ahead of the nodes already placed with its own rate.
insert_ahead_of_ties(placed, x, r) ==
    LET ahead == Cardinality({k \in 1..Len(placed) :
                     attractive_rate(placed[k], r) > attractive_rate(x, r)})
    IN  SubSeq(placed, 1, ahead) \o << x >> \o SubSeq(placed, ahead + 1, Len(placed))

\* sorted(..., key=attractive_rate, reverse=True) is stable: x goes behind
\* every node already placed whose rate is at least its own.
insert_by_rate(placed, x, r) ==
    LET ahead == Cardinality({k \in 1..Len(placed) :
                     attractive_rate(placed[k], r) >= attractive_rate(x, r)})
    IN  SubSeq(placed, 1, ahead) \o << x >> \o SubSeq(placed, ahead + 1, Len(placed))

RECURSIVE sort_by_rate(_, _, _, _)
sort_by_rate(arcs, k, placed, r) ==
    IF k > Len(arcs)
    THEN placed
    ELSE sort_by_rate(arcs, k + 1, insert_by_rate(placed, arcs[k], r), r)

\* sorted_nodes of recursive_solve_end_state_PDFS.
sorted_nodes(arcs, r) == sort_by_rate(arcs, 1, << >>, r)

\* Helpers that all remove node again (a path-scoped visited set).
unmark_always(fn, solved, node) == solved \ {node}

\* Helpers that all keep node marked (a monotonic visited set).
unmark_never(fn, solved, node) == solved

\* What a helper does to the visited set when the recursive call for node
\* failed: the depth-limited helpers remove node, the others keep it.
unmark(fn, solved, node) ==
    IF fn \in LimitedHelpers THEN solved \ {node} ELSE solved

\* Entry to a recursive helper, up to its for loop.
recursive_enter ==
    /\ pc = "enter"
    /\ LET fn        == callee.fn
           depth     == callee.depth
           curr_node == Last(path)
           arcs      == get_arcs(curr_node)
       IN  IF depth_exhausted(fn, depth)
           THEN /\ retval' = "None" /\ pc' = "return"
                /\ UNCHANGED <<frames, rate, outcome>>
           ELSE IF is_end_state(curr_node)
           THEN /\ retval' = "path" /\ pc' = "return"
                /\ UNCHANGED <<frames, rate, outcome>>
           ELSE IF fn = "PDFS"
           THEN IF \E k \in 1..Len(arcs) : ~ implements_attractive_rate(arcs[k])
                THEN /\ outcome' = NotImplementedError /\ pc' = "done"
                     /\ UNCHANGED <<frames, rate, retval>>
                ELSE \E r \in [Range(arcs) \ DOMAIN rate -> Rates] :
                     /\ rate' = r @@ rate
                     /\ frames' = Append(frames,
                            [fn |-> fn, depth |-> depth, k |-> 1,
                             arcs |-> sorted_nodes(arcs, r @@ rate)])
                     /\ pc' = "loop"
                     /\ UNCHANGED <<retval, outcome>>
           ELSE \E order \in node_arcs(fn, curr_node) :
                     /\ frames' = Append(frames,
                            [fn |-> fn, depth |-> depth, k |-> 1, arcs |-> order])
                     /\ pc' = "loop"
                     /\ UNCHANGED <<rate, retval, outcome>>
    /\ UNCHANGED <<instance, callv, bfsv, path, solved_state_nodes, callee,
                   iterv, prev>>

\* One iteration of `for node in node_arcs` of the innermost call, up to the
\* recursive call; `return None` when the arcs are used up.
recursive_for ==
    /\ pc = "loop"
    /\ LET f == Last(frames)
       IN  IF f.k > Len(f.arcs)
           THEN /\ frames' = Front(frames)
                /\ retval' = "None" /\ pc' = "return"
                /\ UNCHANGED <<path, solved_state_nodes, callee>>
           ELSE IF f.arcs[f.k] \in solved_state_nodes
           THEN /\ frames' = [frames EXCEPT ![Len(frames)].k = f.k + 1]
                /\ UNCHANGED <<path, solved_state_nodes, callee, retval, pc>>
           ELSE /\ solved_state_nodes' = solved_state_nodes \cup {f.arcs[f.k]}
                /\ path' = Append(path, f.arcs[f.k])
                /\ callee' = [fn |-> recursive_callee(f.fn),
                              depth |-> child_depth(f.fn, f.depth)]
                /\ pc' = "enter"
                /\ UNCHANGED <<frames, retval>>
    /\ UNCHANGED <<instance, rate, callv, bfsv, iterv, outcome, prev>>

\* The recursive call for node returned: `return path` when it found an end
\* state, else unmark (depth-limited helpers), `path.pop(-1)` and go on.
recursive_after_call ==
    /\ pc = "return"
    /\ frames # << >>
    /\ LET f == Last(frames)
       IN  IF retval = "path"
           THEN /\ frames' = Front(frames)
                /\ UNCHANGED <<path, solved_state_nodes, retval, pc>>
           ELSE /\ solved_state_nodes' = unmark(f.fn, solved_state_nodes, f.arcs[f.k])
                /\ path' = Front(path)
                /\ frames' = [frames EXCEPT ![Len(frames)].k = f.k + 1]
                /\ retval' = "none"
                /\ pc' = "loop"
    /\ UNCHANGED <<instance, rate, callv, bfsv, callee, iterv, outcome, prev>>

\* dfs_wrapper: the outermost helper call returned path_sol.
dfs_wrapper ==
    /\ pc = "return"
    /\ frames = << >>
    /\ LET res == IF retval = "path" THEN Returned(path) ELSE ValueError
       IN  IF strategy \in Iterative
           THEN /\ sol' = res /\ pc' = "iterate"
                /\ UNCHANGED <<i, outcome>>
           ELSE /\ outcome' = res /\ pc' = "done"
                /\ UNCHANGED iterv
    /\ UNCHANGED <<instance, rate, callv, bfsv, dfsv, prev>>

\* `i += 1`.  A path never holds a state twice, so a depth-limited search
\* with any depth of at least the number of states runs exactly as with
\* depth MaxI, and i is not counted further.
next_i(n) == IF n < MaxI THEN n + 1 ELSE n

\* The cut at MaxI loses nothing: at depth MaxI no helper runs out of depth.
MaxIDeepEnough ==
    (strategy \in Iterative /\ i = MaxI /\ pc = "enter") => callee.depth >= 0

\* solve_end_state_IDFSL / solve_end_state_RIDFSL: the body of `while True`
\* after the depth-limited call: return sol, or a ValueError makes sol None
\* and the next depth is tried.
IDFSL_iteration ==
    /\ pc = "iterate"
    /\ IF sol.kind = "path"
       THEN /\ outcome' = sol /\ pc' = "done"
            /\ UNCHANGED <<i, sol, dfsv>>
       ELSE /\ i' = next_i(i)
            /\ sol' = NoOutcome
            /\ enter_dfs_family(inner_strategy(strategy), next_i(i))
            /\ UNCHANGED outcome
    /\ UNCHANGED <<instance, rate, callv, bfsv, prev>>

\* The caller, after a call returned or raised, turns to the same Graph
\* object again; the locals of the finished call are gone.
again ==
    /\ pc = "done"
    /\ prev' = [strategy |-> strategy, depth |-> depth_kw, outcome |-> outcome]
    /\ strategy' = "none" /\ depth_kw' = 0 /\ pc' = "idle"
    /\ parent_dict' = EmptyMap /\ fifo_queue' = << >>
    /\ path' = << >> /\ solved_state_nodes' = {} /\ frames' = << >>
    /\ callee' = NoCallee /\ retval' = "none"
    /\ i' = 0 /\ sol' = NoOutcome /\ outcome' = NoOutcome
    /\ UNCHANGED <<instance, rate>>

\* ------------------------------------------------------------------ Pacman
Abs(x) == IF x < 0 THEN -x ELSE x

\* The (i, j) with abs(i) + abs(j) = 1, in the order the two nested
\* `for ... in range(-1, 2, 1)` loops meet them.
Moves == << <<-1, 0>>, <<0, -1>>, <<0, 1>>, <<1, 0>> >>

\* The four cells next to position, in the order of Moves.
Neighbours(position) ==
    [k \in 1..Len(Moves) |->
        << position[1] + Moves[k][1], position[2] + Moves[k][2] >>]

\* A Pacman state (skip_post_init plays no part in equality of what follows).
Pacman(row_size, col_size, pacman_position, pacman_enemy_positions, points, blocks) ==
    [cls |-> "Pacman", row_size |-> row_size, col_size |-> col_size,
     pacman_position |-> pacman_position,
     pacman_enemy_positions |-> pacman_enemy_positions,
     points |-> points, blocks |-> blocks]

\* `0 <= position[0] < row_size and 0 <= position[1] < col_size`
within_dimensions(self, position) ==
    /\ 0 <= position[1] /\ position[1] < self.row_size
    /\ 0 <= position[2] /\ position[2] < self.col_size

\* Pacman.__post_init__ (skip_post_init false): every assertion passes.
Pacman_post_init(self) ==
    /\ self.row_size > 0 /\ self.col_size > 0
    /\ within_dimensions(self, self.pacman_position)
    /\ self.pacman_position \notin self.pacman_enemy_positions
    /\ self.pacman_position \notin self.points
    /\ self.pacman_position \notin self.blocks
    /\ \A enemy_position \in self.pacman_enemy_positions :
           /\ within_dimensions(self, enemy_position)
           /\ enemy_position \notin self.blocks
    /\ \A point \in self.points :
           /\ within_dimensions(self, point)
           /\ point \notin self.blocks
    /\ \A block \in self.blocks : within_dimensions(self, block)

\* An enemy generator that forgets the cells already allocated.
generate_ignoring_allocated(self, current_position, allocated_enemy_positions) ==
    SelectSeq(Neighbours(current_position),
              LAMBDA next_enemy_move :
                  /\ within_dimensions(self, next_enemy_move)
                  /\ next_enemy_move \notin self.blocks
                  /\ next_enemy_move \notin self.pacman_enemy_positions)

\* Pacman.generate_single_enemy_positions
generate_single_enemy_positions(self, current_position, allocated_enemy_positions) ==
    SelectSeq(Neighbours(current_position),
              LAMBDA next_enemy_move :
                  /\ within_dimensions(self, next_enemy_move)
                  /\ next_enemy_move \notin self.blocks
                  /\ next_enemy_move \notin self.pacman_enemy_positions
                  /\ next_enemy_move \notin allocated_enemy_positions)

\* move_rating of get_next_enemy_positions, for the enemy at enemy_position.
move_rating(self, enemy_position, new_pos) ==
    LET pacman_position == self.pacman_position
    IN  IF ~ (\/ Abs(pacman_position[1] - enemy_position[1])
                    > Abs(pacman_position[1] - new_pos[1])
              \/ Abs(pacman_position[2] - enemy_position[2])
                    > Abs(pacman_position[2] - new_pos[2]))
        THEN 0
        ELSE Abs(new_pos[1] - enemy_position[1])
                 * Abs(pacman_position[1] - enemy_position[1])
             + Abs(new_pos[2] - enemy_position[2])
                 * Abs(pacman_position[2] - enemy_position[2])

\* `sorted(possible, key=move_rating, reverse=True)[0]`: the sort is stable,
\* so this is the first of the positions with the highest rating.
best_rated(self, enemy_position, possible) ==
    possible[CHOOSE k \in 1..Len(possible) :
        /\ \A j \in 1..Len(possible) :
               move_rating(self, enemy_position, possible[j])
                   <= move_rating(self, enemy_position, possible[k])
        /\ \A j \in 1..(k - 1) :
               move_rating(self, enemy_position, possible[j])
                   < move_rating(self, enemy_position, possible[k])]

\* The for loop of get_next_enemy_positions over the enemies in the order
\* the frozenset hands them out, from the k-th on; next[j] is the cell given
\* to the j-th enemy, and next_enemy_positions is the set of these cells.
RECURSIVE enemy_loop(_, _, _, _)
enemy_loop(self, order, k, next) ==
    IF k > Len(order)
    THEN next
    ELSE LET possible == generate_single_enemy_positions(self, order[k], Range(next))
         IN  enemy_loop(self, order, k + 1,
                 Append(next, IF possible = << >>
                              THEN order[k]
                              ELSE best_rated(self, order[k], possible)))

\* The orders in which a frozenset may hand out its elements.
IterationOrders(S) ==
    {order \in [1..Cardinality(S) -> S] :
        \A a, b \in 1..Cardinality(S) : a # b => order[a] # order[b]}

\* A Pacman that walks into cells the enemies are moving to.
positions_ignoring_new_enemies(self, enemy_positions) ==
    SelectSeq(Neighbours(self.pacman_position),
              LAMBDA next_pacman_move :
                  /\ within_dimensions(self, next_pacman_move)
                  /\ next_pacman_move \notin self.blocks
                  /\ next_pacman_move \notin self.pacman_enemy_positions)

\* Pacman.get_possible_pacman_positions
get_possible_pacman_positions(self, enemy_positions) ==
    SelectSeq(Neighbours(self.pacman_position),
              LAMBDA next_pacman_move :
                  /\ within_dimensions(self, next_pacman_move)
                  /\ next_pacman_move \notin self.blocks
                  /\ next_pacman_move \notin self.pacman_enemy_positions
                  /\ next_pacman_move \notin enemy_positions)

\* Pacman.next_states, given the cells get_next_enemy_positions returned.
Pacman_next_states(self, new_enemy_positions) ==
    LET possible == get_possible_pacman_positions(self, new_enemy_positions)
    IN  [k \in 1..Len(possible) |->
            Pacman(self.row_size, self.col_size, possible[k],
                   new_enemy_positions,
                   self.points \ {possible[k]},
                   self.blocks)]

\* Pacman.is_end_state
Pacman_is_end_state(self) == self.points = {}

\* The cells of a grid.
Cells(row_size, col_size) == (0..(row_size - 1)) \X (0..(col_size - 1))
AtMost(S, n) == {T \in SUBSET S : Cardinality(T) <= n}

\* A Pacman state built by the caller: it passed __post_init__.
InitPacman ==
    /\ \E row_size \in 1..MaxCells :
       \E col_size \in 1..(MaxCells \div row_size) :
       \E blocks \in AtMost(Cells(row_size, col_size), MaxBlocks) :
       \E pacman_position \in Cells(row_size, col_size) \ blocks :
       \E enemies \in AtMost(Cells(row_size, col_size)
                                 \ (blocks \cup {pacman_position}), MaxEnemies),
          points \in AtMost(Cells(row_size, col_size)
                                 \ (blocks \cup {pacman_position}), MaxPoints) :
           /\ pacman = Pacman(row_size, col_size, pacman_position,
                              enemies, points, blocks)
           /\ Pacman_post_init(pacman)
    /\ next_states_call = NoObject
    /\ maze_args = NoObject /\ maze = NoObject
    /\ start_node = NoObject /\ succ = EmptyMap /\ goal = {} /\ rate = EmptyMap
    /\ InitEngine

\* One call of next_states() on the state at hand; the caller goes on with
\* any of the states returned, or stays where it is when none is returned.
Pacman_step ==
    /\ pacman.cls = "Pacman"
    /\ \E order \in IterationOrders(pacman.pacman_enemy_positions) :
           LET next     == enemy_loop(pacman, order, 1, << >>)
               returned == Pacman_next_states(pacman, Range(next))
           IN  /\ next_states_call' =
                      [cls |-> "call", self |-> pacman, order |-> order,
                       next |-> next, returned |-> returned]
               /\ \/ returned = << >> /\ pacman' = pacman
                  \/ \E k \in 1..Len(returned) : pacman' = returned[k]
    /\ UNCHANGED <<start_node, succ, goal, maze_args, maze, rate, callv, pc,
                   bfsv, dfsv, iterv, outcome, prev>>

SpecPacman == InitPacman /\ [][Pacman_step]_vars

\* -------------------------------------------------------------------- Maze
\* The arguments of Maze.maze_constructor; block_points maps a row index to
\* the column indexes blocked in that row.
MazeArgs(maze_dimensions, exit_position, block_points) ==
    [cls |-> "args", maze_dimensions |-> maze_dimensions,
     exit_position |-> exit_position, block_points |-> block_points]

\* Maze._validate_init_args: "ok" when it returns, else the exception raised.
validate_init_args(maze_dimensions, exit_position, block_points) ==
    LET row_size == maze_dimensions[1]
        col_size == maze_dimensions[2]
        exit_row == exit_position[1]
        exit_col == exit_position[2]
    IN  IF \/ /\ exit_row \in DOMAIN block_points
              /\ exit_col \in block_points[exit_row]
           \/ exit_row < 0
           \/ exit_row >= row_size
           \/ exit_col < 0
           \/ exit_col >= col_size
        THEN "ValueError"
        ELSE IF \A row_index \in DOMAIN block_points :
                    /\ row_index >= 0
                    /\ row_index < row_size
                    /\ \A col_index \in block_points[row_index] :
                           col_index >= 0 /\ col_index < col_size
             THEN "ok"
             ELSE "AssertionError"

\* `[[Pathway] * row_size for i in range(col_size)]`: col_size lists of
\* row_size cells each; maze[r][c] with r and c counted from 0.
pathways(row_size, col_size) ==
    [r \in 0..(col_size - 1) |-> [c \in 0..(row_size - 1) |-> "Pathway"]]

\* `maze[r][c] = ...` raises IndexError outside the lists.
indexes(grid, r, c) == r \in DOMAIN grid /\ c \in DOMAIN grid[r]

\* Maze.maze_constructor: the grid returned, or the exception raised.
maze_constructor(maze_dimensions, exit_position, block_points) ==
    LET checked == validate_init_args(maze_dimensions, exit_position, block_points)
        grid    == pathways(maze_dimensions[1], maze_dimensions[2])
        blocked == {<<r, c>> \in (DOMAIN block_points) \X (0..MaxDim) :
                        c \in block_points[r]}
    IN  IF checked # "ok"
        THEN [cls |-> checked]
        ELSE IF ~ indexes(grid, exit_position[1], exit_position[2])
        THEN [cls |-> "IndexError"]
        ELSE IF \E b \in blocked : ~ indexes(grid, b[1], b[2])
        THEN [cls |-> "IndexError"]
        ELSE [cls |-> "grid",
              maze |-> [r \in DOMAIN grid |-> [c \in DOMAIN grid[r] |->
                          IF <<r, c>> \in blocked THEN "Block"
                          ELSE IF <<r, c>> = exit_position THEN "Exit"
                          ELSE "Pathway"]]]

\* The caller's arguments: any dimensions, any exit position in or next to
\* the grid, no block point or the block points of one row.
InitMaze ==
    /\ \E maze_dimensions \in (1..MaxDim) \X (1..MaxDim),
          exit_position \in (-1..MaxDim) \X (-1..MaxDim) :
       \E block_points \in {EmptyMap} \cup
              {r :> cols : r \in 0..MaxDim, cols \in SUBSET (0..MaxDim)} :
           maze_args = MazeArgs(maze_dimensions, exit_position, block_points)
    /\ maze = NoObject
    /\ pacman = NoObject /\ next_states_call = NoObject
    /\ start_node = NoObject /\ succ = EmptyMap /\ goal = {} /\ rate = EmptyMap
    /\ InitEngine

\* The call Maze.maze_constructor(maze_dimensions, exit_position, block_points).
maze_constructor_call ==
    /\ maze_args.cls = "args"
    /\ maze = NoObject
    /\ maze' = maze_constructor(maze_args.maze_dimensions,
                                maze_args.exit_position, maze_args.block_points)
    /\ UNCHANGED <<start_node, succ, goal, pacman, next_states_call, maze_args,
                   rate, callv, pc, bfsv, dfsv, iterv, outcome, prev>>

SpecMaze == InitMaze /\ [][maze_constructor_call]_vars

\* ----------------------------------------------------------- specifications
Step ==
    \/ BFS_iteration
    \/ recursive_enter
    \/ recursive_for
    \/ recursive_after_call
    \/ dfs_wrapper
    \/ IDFSL_iteration

\* One call of solve_end_state on a freshly built Graph.
Next == Call \/ Step
Spec == Init /\ [][Next]_vars

\* The same, run to the end: a call that has begun keeps taking steps.
FairSpec == Init /\ [][Next]_vars /\ WF_vars(Step)

\* The caller repeats its call, with the same arguments, on the same Graph.
first_call == prev = NoCall /\ Call
call_again == prev # NoCall /\ solve_end_state(prev.strategy, prev.depth)
NextRepeat == first_call \/ Step \/ again \/ call_again
SpecRepeat == Init /\ [][NextRepeat]_vars

\* The strategy that differs from strat only in being, or not being, the
\* randomized one; BFS and PDFS have none.
counterpart(strat) ==
    CASE strat = "DFS"    -> "RDFS"
      [] strat = "RDFS"   -> "DFS"
      [] strat = "DFSL"   -> "RDFSL"
      [] strat = "RDFSL"  -> "DFSL"
      [] strat = "IDFSL"  -> "RIDFSL"
      [] strat = "RIDFSL" -> "IDFSL"
      [] OTHER            -> strat

\* The caller runs a strategy and then, on the same Graph and with the same
\* depth, its counterpart.
call_counterpart ==
    prev # NoCall /\ solve_end_state(counterpart(prev.strategy), prev.depth)
NextPair == first_call \/ Step \/ again \/ call_counterpart
SpecPair == Init /\ [][NextPair]_vars

\* ------------------------------------------------------------ reachability
\* The states within one more transition of the states of R.
Successors(R) == R \cup UNION {Range(next_states(s)) : s \in R}

\* The states within k transitions of the start state.
RECURSIVE Within(_)
Within(k) == IF k <= 0 THEN {start_node} ELSE Successors(Within(k - 1))

\* Some end state lies within k transitions of the start state.
EndWithin(k) == \E s \in Within(k) : is_end_state(s)

\* The least number of transitions from R (k transitions away from the start)
\* to an end state; -1 when no end state can be reached.
RECURSIVE Shortest(_, _)
Shortest(R, k) ==
    IF \E s \in R : is_end_state(s) THEN k
    ELSE IF Successors(R) = R THEN -1
    ELSE Shortest(Successors(R), k + 1)

MinTransitions == Shortest({start_node}, 0)
Unsolvable     == MinTransitions = -1

\* The states that can be reached from the states of R.
RECURSIVE Closure(_)
Closure(R) == IF Successors(R) = R THEN R ELSE Closure(Successors(R))
Reachable == Closure({start_node})
Transitions(p) == Len(p) - 1
ReturnedPath   == pc = "done" /\ outcome.kind = "path"

\* ------------------------------------------------------------------- claims

\* C1. Path validity: whatever the strategy, a returned path starts at the
\* start state, ends in an end state, and each state of it is one of the
\* next_states() of the state before it.
PathValidity ==
    ReturnedPath =>
        LET p == outcome.path
        IN  /\ Len(p) >= 1
            /\ p[1] = start_node
            /\ is_end_state(p[Len(p)])
            /\ \A k \in 1..(Len(p) - 1) : p[k + 1] \in Range(next_states(p[k]))

\* A path of three transitions was returned.
PathValidityWitness == ReturnedPath /\ Transitions(outcome.path) = 3

\* C2. BFS minimality: when an end state can be reached, BFS returns a path,
\* and no path from the start to an end state has fewer transitions.
BFSMinimality ==
    (pc = "done" /\ strategy = "BFS" /\ ~ Unsolvable) =>
        /\ outcome.kind = "path"
        /\ Transitions(outcome.path) = MinTransitions

\* BFS returned a path of two transitions on a graph with a cycle back to the
\* start state: the start was met again as a successor and given a parent.
BFSMinimalityWitness ==
    /\ ReturnedPath /\ strategy = "BFS"
    /\ Transitions(outcome.path) = 2
    /\ start_node \in DOMAIN parent_dict

\* C3. IDFSL/BFS equivalence: when BFS finds a path, a call of IDFSL ends, and
\* it ends returning a path of the length of the path BFS returns.
IDFSLEquivalentToBFS ==
    (strategy = "IDFSL" /\ solve_end_state_BFS.kind = "path")
        ~> (/\ pc = "done"
            /\ outcome.kind = "path"
            /\ Len(outcome.path) = Len(solve_end_state_BFS.path))

\* IDFSL returned a path at depth 2, after depths 0 and 1 had failed, on an
\* instance where the first successor of the start leads to a longer path.
IDFSLEquivalentToBFSWitness ==
    /\ ReturnedPath /\ strategy = "IDFSL" /\ i = 2
    /\ Len(solve_end_state_BFS.path) = 3
    /\ outcome.path[2] # get_arcs(start_node)[1]

\* C4. Depth-limit respect: DFSL and RDFSL with depth d return no path of more
\* than d transitions, and raise ValueError when no end state lies within d
\* transitions of the start.
DepthLimitRespected ==
    (pc = "done" /\ strategy \in DepthLimited) =>
        /\ outcome.kind = "path" => Transitions(outcome.path) <= depth_kw
        /\ ~ EndWithin(depth_kw) => outcome = ValueError

\* A depth-limited call failed with the nearest end state one transition
\* beyond its depth.
DepthLimitRespectedWitness ==
    /\ pc = "done" /\ strategy \in DepthLimited
    /\ depth_kw = 1 /\ MinTransitions = 2
    /\ outcome = ValueError

\* C5. DFSL completeness within the bound: when some end state lies within d
\* transitions of the start, DFSL with depth d returns a path.
DFSLComplete ==
    (pc = "done" /\ strategy = "DFSL" /\ EndWithin(depth_kw)) =>
        outcome.kind = "path"

\* DFSL with depth 1 returned [start, g] where g is the second successor of
\* the start and also a successor of its first successor a: the search went
\* start, a, g first, gave up on g for lack of depth, and came back to g.
DFSLCompleteWitness ==
    /\ ReturnedPath /\ strategy = "DFSL" /\ depth_kw = 1
    /\ Len(get_arcs(start_node)) = 2
    /\ LET a == get_arcs(start_node)[1]
           g == get_arcs(start_node)[2]
       IN  /\ a # g /\ a # start_node /\ g # start_node
           /\ ~ is_end_state(a)
           /\ g \in Range(get_arcs(a))
           /\ outcome.path = << start_node, g >>

\* C6. Exhaustion: when no state that can be reached is an end state, BFS,
\* DFS and PDFS end with ValueError.
Exhaustion ==
    (pc = "done" /\ strategy \in {"BFS", "DFS", "PDFS"} /\ Unsolvable) =>
        outcome = ValueError

\* C7. No-path scenario: when no end state can be reached, a call of any of
\* the eight strategies ends, and ends with ValueError.  Stated for the State
\* classes that implement attractive_rate, as the grid of the scenario does.
NoPathEveryStrategy ==
    (/\ pc # "idle" /\ strategy \in Strategies
     /\ implements_attractive_rate(start_node)
     /\ Unsolvable)
        ~> (pc = "done" /\ outcome = ValueError)

\* C8. Determinism: a second call of BFS, DFS, DFSL, IDFSL or PDFS with the
\* arguments of the first, on the same Graph, ends as the first did.
Determinism ==
    (/\ pc = "done"
     /\ strategy \in {"BFS", "DFS", "DFSL", "IDFSL", "PDFS"}
     /\ prev.strategy = strategy /\ prev.depth = depth_kw) =>
        outcome = prev.outcome

\* DFS was called twice on a state with two successors and returned a path
\* both times.
DeterminismWitness ==
    /\ ReturnedPath /\ strategy = "DFS" /\ prev.strategy = "DFS"
    /\ Len(get_arcs(start_node)) = 2
    /\ get_arcs(start_node)[1] # get_arcs(start_node)[2]
    /\ Transitions(outcome.path) >= 1

\* C9. Toggle puzzle: from LightBulb(is_on=False) each of BFS, DFS and PDFS
\* returns [off, on].
ToggleScenario ==
    (/\ pc = "done"
     /\ start_node = LightBulb(FALSE)
     /\ strategy \in {"BFS", "DFS", "PDFS"}) =>
        outcome = Returned(<< LightBulb(FALSE), LightBulb(TRUE) >>)

\* C10. Modular counter: a path returned from a ModN start is the successive
\* values val, val+inc mod m, ... up to and including the first 0; from
\* ModN(mod=5, inc=2, val=1), BFS, DFS and IDFSL return [1, 3, 0].
ModNScenario ==
    (pc = "done" /\ start_node.cls = "ModN") =>
        /\ outcome.kind = "path" =>
              \A k \in 1..Len(outcome.path) :
                  /\ outcome.path[k] =
                        ModN(start_node.mod, start_node.inc,
                             (start_node.val + (k - 1) * start_node.inc)
                                 % start_node.mod)
                  /\ outcome.path[k].val = 0 <=> k = Len(outcome.path)
        /\ (start_node = ModN(5, 2, 1) /\ strategy \in {"BFS", "DFS", "IDFSL"}) =>
              outcome = Returned(<< ModN(5, 2, 1), ModN(5, 2, 3), ModN(5, 2, 0) >>)

\* IDFSL returned the three states from ModN(mod=5, inc=2, val=1).
ModNScenarioWitness ==
    /\ ReturnedPath /\ strategy = "IDFSL"
    /\ start_node = ModN(5, 2, 1)
    /\ Len(outcome.path) = 3

\* C11. RDFSL, and RIDFSL which calls it, walk the successors of every node in
\* a shuffled order: whenever a helper of such a call is about to walk the
\* arcs of a node, every permutation of get_arcs() is an order it may take.
RDFSLShuffles ==
    (/\ pc = "enter"
     /\ strategy \in {"RDFSL", "RIDFSL"}
     /\ ~ depth_exhausted(callee.fn, callee.depth)
     /\ ~ is_end_state(Last(path))) =>
        \A order \in Shuffles(get_arcs(Last(path))) :
            ENABLED (recursive_enter /\ frames'[Len(frames')].arcs = order)

PDFSOrdering ==
    strategy = "PDFS" =>
        /\ \A j \in 1..Len(frames) :
               LET f    == frames[j]
                   arcs == get_arcs(path[j])
               IN  /\ Len(f.arcs) = Len(arcs)
                   /\ \E p \in Permutations(1..Len(arcs)) :
                          /\ \A k \in 1..Len(arcs) : f.arcs[k] = arcs[p[k]]
                          /\ \A a, b \in 1..Len(arcs) :
                                 a < b =>
                                     \/ rate[f.arcs[a]] > rate[f.arcs[b]]
                                     \/ /\ rate[f.arcs[a]] = rate[f.arcs[b]]
                                        /\ p[a] < p[b]
                   /\ \A k \in 1..Len(f.arcs) :
                          k < f.k => f.arcs[k] \in solved_state_nodes
                   /\ j < Len(path) =>
                          /\ f.k <= Len(f.arcs)
                          /\ path[j + 1] = f.arcs[f.k]
        /\ (pc = "done" /\ rate # EmptyMap /\ ~ Unsolvable) =>
               outcome.kind = "path"

\* PDFS returned a path that does not go through the successor of the start
\* state it tried first, which has the same rate as the next one: the greedy
\* choice ended in failure and PDFS backtracked.
PDFSOrderingWitness ==
    /\ ReturnedPath /\ strategy = "PDFS"
    /\ Len(get_arcs(start_node)) >= 2
    /\ Len(outcome.path) >= 2
    /\ get_arcs(start_node)[1] # get_arcs(start_node)[2]
    /\ rate[get_arcs(start_node)[1]] = rate[get_arcs(start_node)[2]]
    /\ sorted_nodes(get_arcs(start_node), rate)[1] = get_arcs(start_node)[1]
    /\ outcome.path[2] = get_arcs(start_node)[2]

\* The visited-state bookkeeping of the call in progress: the keys of
\* parent_dict for BFS, solved_state_nodes for the DFS family.
visited ==
    IF strategy = "BFS" THEN DOMAIN parent_dict ELSE solved_state_nodes

\* A call (for IDFSL and RIDFSL also each depth-limited call they make) is at
\* its beginning: nothing has been dequeued or expanded yet.
CallBegins ==
    \/ pc = "bfs" /\ fifo_queue = << [node |-> start_node, depth |-> 0] >>
    \/ pc = "enter" /\ frames = << >>

\* C14. Clean slate per call: whatever was called before on the same Graph,
\* every call, of BFS as of the other strategies, begins with visited-state
\* bookkeeping that holds exactly the start Node, and no step changes the
\* Graph's start_node.
CleanSlate ==
    /\ [](CallBegins => visited = {start_node})
    /\ [][start_node' = start_node]_vars

\* C15. BFS admits each state at most once: no turn of the BFS loop enqueues
\* a state that was enqueued before (the start state, enqueued at the
\* beginning, or a state given a parent on being enqueued), nor one state
\* twice.
BFSAdmitsOnce ==
    [][(pc = "bfs" /\ pc' = "bfs") =>
          LET kept == Len(fifo_queue) - 1
              new  == [k \in 1..(Len(fifo_queue') - kept) |->
                          fifo_queue'[kept + k].node]
          IN  /\ \A k \in DOMAIN new :
                     new[k] \notin ({start_node} \cup DOMAIN parent_dict)
              /\ \A a, b \in DOMAIN new : a # b => new[a] # new[b]]_vars

\* C16. DFS/PDFS completeness: when some end state can be reached, DFS and
\* PDFS return a path; when none can, DFS fails with ValueError having marked
\* every reachable state.
DFSPDFSComplete ==
    /\ (pc = "done" /\ strategy \in {"DFS", "PDFS"} /\ ~ Unsolvable) =>
           outcome.kind = "path"
    /\ (pc = "done" /\ strategy = "DFS" /\ Unsolvable) =>
           /\ outcome = ValueError
           /\ solved_state_nodes = Reachable

\* The strategies whose helpers never unmark a node.
Monotonic == {"DFS", "RDFS", "PDFS"}

\* The path the helper calls in progress have built: the start state, then
\* for each call the successor it has descended into.
path_of(frs) ==
    << start_node >> \o [j \in 1..Len(frs) |-> frs[j].arcs[frs[j].k]]

\* C17. Monotonic visited policy of DFS, RDFS and PDFS: no step of a call
\* removes a state from the visited set; every node on the current path is
\* in the visited set; and when a recursive call returns failure the path is
\* what it was when the call was entered, the path its callers have built.
MonotonicVisited ==
    /\ [][(strategy \in Monotonic) =>
              (solved_state_nodes \subseteq solved_state_nodes')]_vars
    /\ [](strategy \in Monotonic => Range(path) \subseteq solved_state_nodes)
    /\ []((/\ strategy \in Monotonic
           /\ \/ pc = "enter"
              \/ pc = "return" /\ retval = "None") =>
              path = path_of(frames))

\* DFS, RDFS or PDFS has backtracked: a state that is no longer on the path
\* is still in the visited set.
MonotonicVisitedWitness ==
    /\ strategy \in Monotonic /\ pc = "loop"
    /\ solved_state_nodes \ Range(path) # {}

\* C18. Path-scoped visited policy of DFSL and RDFSL (and of the calls IDFSL
\* and RIDFSL make): at every entry to the recursive helper the visited set
\* is exactly the set of nodes on the current path; and once a recursive call
\* has returned failure and the caller's loop goes on, the path and the
\* visited set are what they were before the successor was marked and
\* appended: the path the callers had built, and its nodes.
PathScopedVisited ==
    strategy \in DepthLimited \cup Iterative =>
        /\ pc = "enter" =>
               /\ solved_state_nodes = Range(path)
               /\ path = path_of(frames)
        /\ (pc = "loop" /\ frames # << >>) =>
               /\ solved_state_nodes = Range(path)
               /\ path = path_of(Front(frames))

\* A depth-limited helper has backtracked out of a successor, which is no
\* longer in the visited set, and its loop is at the next arc.
PathScopedVisitedWitness ==
    /\ strategy \in DepthLimited /\ pc = "loop" /\ frames # << >>
    /\ Last(frames).k = 2
    /\ Last(frames).arcs[1] \notin solved_state_nodes
    /\ Len(path) = 2

\* C19. No returned path holds the same state twice, whatever the strategy
\* and whatever self-loops and cycles the successor graph has.
NoRepeatedState ==
    ReturnedPath =>
        \A a, b \in 1..Len(outcome.path) :
            a # b => outcome.path[a] # outcome.path[b]

\* A path of at least two transitions was returned on a graph with a cycle
\* through the start state: the first successor of the second state of the
\* path is the start state.
NoRepeatedStateWitness ==
    /\ ReturnedPath /\ Len(outcome.path) >= 3
    /\ next_states(outcome.path[2])[1] = start_node

\* C20. Start-is-goal: when the start state is an end state, no strategy
\* expands anything (no helper call gets as far as its arcs, nothing is given
\* a parent or a rate, nothing joins the frontier) and every call returns the
\* one-element path [start]; DFSL and RDFSL with depth 0 return [start] when
\* the start state is an end state and raise ValueError when it is not.
StartIsGoal ==
    /\ is_end_state(start_node) =>
           /\ frames = << >>
           /\ parent_dict = EmptyMap
           /\ rate = EmptyMap
           /\ Len(fifo_queue) <= 1
           /\ pc = "done" => outcome = Returned(<< start_node >>)
    /\ (pc = "done" /\ strategy \in DepthLimited /\ depth_kw = 0) =>
           outcome = IF is_end_state(start_node)
                     THEN Returned(<< start_node >>)
                     ELSE ValueError

\* DFSL or RDFSL with depth 0 returned [start] for a start state that is an
\* end state and has a successor other than itself.
StartIsGoalWitness ==
    /\ ReturnedPath /\ strategy \in DepthLimited /\ depth_kw = 0
    /\ is_end_state(start_node)
    /\ \E k \in 1..Len(get_arcs(start_node)) : get_arcs(start_node)[k] # start_node
    /\ outcome.path = << start_node >>

\* C21. Pacman enemy-move rules, for every call of next_states(): an enemy
\* that moves goes to a cell no enemy of the current state is on; no two
\* enemies are given the same next cell; an enemy stays in place only when
\* none of the four cells next to it is inside the grid, free of blocks, free
\* of current enemies and not yet given to another enemy; and so the enemies
\* are as many after the move as before, in every state returned.
EnemyMoveRules ==
    next_states_call.cls = "call" =>
        LET self  == next_states_call.self
            order == next_states_call.order
            next  == next_states_call.next
        IN  /\ \A k \in 1..Len(order) :
                   next[k] # order[k] =>
                       next[k] \notin self.pacman_enemy_positions
            /\ \A a, b \in 1..Len(order) : a # b => next[a] # next[b]
            /\ \A k \in 1..Len(order) :
                   next[k] = order[k] =>
                       \A c \in Range(Neighbours(order[k])) :
                           \/ ~ within_dimensions(self, c)
                           \/ c \in self.blocks
                           \/ c \in self.pacman_enemy_positions
                           \/ \E j \in 1..(k - 1) : next[j] = c
            /\ Cardinality(Range(next)) = Cardinality(self.pacman_enemy_positions)
            /\ \A j \in 1..Len(next_states_call.returned) :
                   Cardinality(next_states_call.returned[j].pacman_enemy_positions)
                       = Cardinality(self.pacman_enemy_positions)

\* A call of next_states() that returned a state, in which one enemy had no
\* legal move and stayed while another enemy moved.
EnemyMoveRulesWitness ==
    /\ next_states_call.cls = "call"
    /\ next_states_call.returned # << >>
    /\ \E a, b \in 1..Len(next_states_call.order) :
           /\ next_states_call.next[a] = next_states_call.order[a]
           /\ next_states_call.next[b] # next_states_call.order[b]

\* C22. Pacman reachable-state invariant: in every state reached through
\* next_states() from a Pacman state that passed __post_init__, Pacman's
\* position is inside the grid, is not a block, is not an enemy position and
\* is not in the points set; and the points of every state next_states()
\* returns are a subset of the points of the state it was called on.
PacmanReachable ==
    pacman.cls = "Pacman" =>
        /\ within_dimensions(pacman, pacman.pacman_position)
        /\ pacman.pacman_position \notin pacman.blocks
        /\ pacman.pacman_position \notin pacman.pacman_enemy_positions
        /\ pacman.pacman_position \notin pacman.points
        /\ next_states_call.cls = "call" =>
               \A j \in 1..Len(next_states_call.returned) :
                   next_states_call.returned[j].points
                       \subseteq next_states_call.self.points

\* Pacman has stepped onto a point, which is gone from the points set, on a
\* grid with a block, while an enemy moved onto the cell Pacman left.
PacmanReachableWitness ==
    /\ next_states_call.cls = "call"
    /\ pacman.pacman_position \in next_states_call.self.points
    /\ pacman.points = next_states_call.self.points \ {pacman.pacman_position}
    /\ pacman.blocks # {}
    /\ next_states_call.self.pacman_position \in pacman.pacman_enemy_positions

\* C23. Maze.maze_constructor with maze_dimensions = (rows, cols): whenever
\* _validate_init_args accepts the arguments, a grid is returned, it has
\* exactly `rows` rows of `cols` cells each, and the exit position and every
\* block point index a cell of it.
MazeDimensions ==
    (/\ maze # NoObject
     /\ validate_init_args(maze_args.maze_dimensions, maze_args.exit_position,
                           maze_args.block_points) = "ok") =>
        /\ maze.cls = "grid"
        /\ DOMAIN maze.maze = 0..(maze_args.maze_dimensions[1] - 1)
        /\ \A r \in DOMAIN maze.maze :
               DOMAIN maze.maze[r] = 0..(maze_args.maze_dimensions[2] - 1)
        /\ indexes(maze.maze, maze_args.exit_position[1], maze_args.exit_position[2])
        /\ \A r \in DOMAIN maze_args.block_points :
               \A c \in maze_args.block_points[r] : indexes(maze.maze, r, c)

====
